---- MODULE Spec2Model ----
(***************************************************************************)
(* Model of rusty_bars: the spectrum analysis front end                    *)
(* (src/src/analyze_spectrum.rs) and the ncurses bar renderer              *)
(* (src/src/visualizer.rs).                                                *)
(*                                                                         *)
(* f64 values are modelled as exact rationals n/d (d > 0, lowest terms)    *)
(* extended with the IEEE values -inf and NaN, which is what the code can  *)
(* produce from log10(0) and 0/0.                                          *)
(***************************************************************************)
EXTENDS Integers, Naturals, Sequences, FiniteSets, TLC

(***************************************************************************)
(* Bounds of the model.                                                    *)
(***************************************************************************)
MaxLen == 6        \* longest input handed to scale_fft_output
MaxNewLen == 7     \* largest new_len handed to scale_fft_output
MaxN == 8          \* largest n handed to AudioFFT::new
MaxChannels == 2   \* largest channel count handed to AudioFFT::new
MaxBufLen == 33    \* longest raw buffer handed to AudioFFT::execute
MaxY == 2          \* largest terminal height (rows)
MaxX == 2          \* largest terminal width (columns)
MaxData == 2       \* longest spectrum handed to render_frame

(***************************************************************************)
(* f64 arithmetic.                                                         *)
(***************************************************************************)
Abs(i) == IF i < 0 THEN -i ELSE i

RECURSIVE GCD(_, _)
GCD(a, b) == IF b = 0 THEN a ELSE GCD(b, a % b)

Fin(num, den) ==
    LET g == GCD(Abs(num), den)
    IN  [k |-> "fin", n |-> num \div g, d |-> den \div g]

F(i) == [k |-> "fin", n |-> i, d |-> 1]
NegInf == [k |-> "ninf", n |-> 0, d |-> 1]
NaN == [k |-> "nan", n |-> 0, d |-> 1]

IsFinite(v) == v.k = "fin"

\* a + b
FAdd(a, b) ==
    IF a.k = "nan" \/ b.k = "nan" THEN NaN
    ELSE IF a.k = "ninf" \/ b.k = "ninf" THEN NegInf
    ELSE Fin(a.n * b.d + b.n * a.d, a.d * b.d)

\* a / c for a count c > 0 (sum / temp_count as f64)
FDivCount(a, c) ==
    IF a.k = "fin" THEN Fin(a.n, a.d * c) ELSE a

\* a * (num / den), den > 0
FMulRat(a, num, den) ==
    IF a.k = "fin" THEN Fin(a.n * num, a.d * den)
    ELSE IF a.k = "nan" \/ num = 0 THEN NaN
    ELSE a

\* a < b ; every comparison with NaN is false
FLt(a, b) ==
    CASE a.k = "nan" \/ b.k = "nan" -> FALSE
      [] a.k = "ninf" -> b.k = "fin"
      [] b.k = "ninf" -> FALSE
      [] OTHER -> a.n * b.d < b.n * a.d

SeqOf(S, maxLen) == UNION {[1..l -> S] : l \in 0..maxLen}

(***************************************************************************)
(* analyze_spectrum.rs: is_power_of_two                                    *)
(***************************************************************************)
RECURSIVE BitAnd(_, _)
BitAnd(a, b) ==
    IF a = 0 \/ b = 0 THEN 0
    ELSE (a % 2) * (b % 2) + 2 * BitAnd(a \div 2, b \div 2)

is_power_of_two(x) == (x # 0) /\ (BitAnd(x, x - 1) = 0)

(***************************************************************************)
(* scale_fft_output, as written in both files: the loop state is           *)
(* (temp_count, sum, output); an element that arrives when the band is     *)
(* full triggers the push and is itself not accumulated.                   *)
(***************************************************************************)
RECURSIVE scale_loop(_, _, _, _, _, _)
scale_loop(input, i, band_size, temp_count, sum, output) ==
    IF i > Len(input)
    THEN IF temp_count >= band_size
         THEN Append(output, FDivCount(sum, temp_count))
         ELSE output
    ELSE IF temp_count >= band_size
         THEN scale_loop(input, i + 1, band_size, 0, F(0),
                         Append(output, FDivCount(sum, temp_count)))
         ELSE scale_loop(input, i + 1, band_size, temp_count + 1,
                         FAdd(sum, input[i]), output)

\* scale_fft_output with the pass-through test written as new_len > input.len()
scale_fft_output_strict(input, new_len) ==
    IF new_len > Len(input)
    THEN [status |-> "ok", out |-> input]
    ELSE IF new_len = 0
    THEN [status |-> "panic_div_by_zero", out |-> <<>>]
    ELSE [status |-> "ok",
          out |-> scale_loop(input, 1, Len(input) \div new_len, 0, F(0), <<>>)]

\* analyze_spectrum.rs copy
scale_fft_output(input, new_len) ==
    IF new_len >= Len(input)
    THEN [status |-> "ok", out |-> input]
    ELSE IF new_len = 0
    THEN [status |-> "panic_div_by_zero", out |-> <<>>]
    ELSE LET band_size == Len(input) \div new_len
         IN  IF ~(band_size > 0)
             THEN [status |-> "panic_assert", out |-> <<>>]
             ELSE [status |-> "ok",
                   out |-> scale_loop(input, 1, band_size, 0, F(0), <<>>)]

\* visualizer.rs copy
RECURSIVE vis_scale_loop(_, _, _, _, _, _)
vis_scale_loop(input, i, band_size, temp_count, sum, output) ==
    IF i > Len(input)
    THEN IF temp_count >= band_size
         THEN Append(output, FDivCount(sum, temp_count))
         ELSE output
    ELSE IF temp_count >= band_size
         THEN vis_scale_loop(input, i + 1, band_size, 0, F(0),
                             Append(output, FDivCount(sum, temp_count)))
         ELSE vis_scale_loop(input, i + 1, band_size, temp_count + 1,
                             FAdd(sum, input[i]), output)

vis_scale_fft_output(input, new_len) ==
    IF new_len >= Len(input)
    THEN [status |-> "ok", out |-> input]
    ELSE IF new_len = 0
    THEN [status |-> "panic_div_by_zero", out |-> <<>>]
    ELSE LET band_size == Len(input) \div new_len
         IN  IF ~(band_size > 0)
             THEN [status |-> "panic_assert", out |-> <<>>]
             ELSE [status |-> "ok",
                   out |-> vis_scale_loop(input, 1, band_size, 0, F(0), <<>>)]

(***************************************************************************)
(* State.                                                                  *)
(***************************************************************************)
VARIABLES
    \* a call of scale_fft_output (both copies) on one input
    sc_pc,          \* "call" before the call, "done" after it
    sc_input,       \* the argument input
    sc_new_len,     \* the argument new_len
    sc_out,         \* result of the analyze_spectrum.rs copy
    sc_vis_out,     \* result of the visualizer.rs copy
    \* AudioFFT
    pc,             \* "start" (not constructed), "ready", "panic"
    panic_msg,      \* message of the panic that ended the program
    little_endian,  \* byte order of the build target
    n,              \* AudioFFT.n
    channels,       \* AudioFFT.channels
    input,          \* AudioFFT.input, bound to the plan
    output,         \* AudioFFT.output, bound to the plan
    buffer,         \* argument of the last execute call
    all_floats,     \* execute: all_floats
    channel_data,   \* execute: channel_data as returned by split_channels
    spectrum,       \* value returned by the last execute call
    \* Visualizer and its terminal
    max_y,          \* terminal rows, win.get_max_yx().0
    max_x,          \* terminal columns, win.get_max_yx().1
    overflow_checks,\* whether the build panics on integer overflow
    rows,           \* Visualizer.rows (rows[1] is grid row 0, the bottom)
    width,          \* Visualizer.width
    height,         \* Visualizer.height
    v_pc,           \* "idle" between frames, "panic" after a panic
    v_input,        \* render_frame: the argument data
    v_data,         \* render_frame: data after scale_fft_output
    v_writes,       \* render_frame: the addbytes calls, in call order
    v_result,       \* render_frame: "Ok", "Err", or the panic
    v_last,         \* the last step: "new", "resize" or "render_frame"
    v_shrunk        \* the last render_frame found both dimensions smaller

sc_vars == <<sc_pc, sc_input, sc_new_len, sc_out, sc_vis_out>>
fft_vars == <<pc, panic_msg, little_endian, n, channels, input, output,
              buffer, all_floats, channel_data, spectrum>>
vis_vars == <<max_y, max_x, overflow_checks, rows, width, height, v_pc,
              v_input, v_data, v_writes, v_result, v_last, v_shrunk>>
vars == <<sc_vars, fft_vars, vis_vars>>

(***************************************************************************)
(* Initial values of the three components.                                 *)
(***************************************************************************)
ScaleVals == {NegInf, F(0), F(10)}
Ramp(l) == [i \in 1..l |-> F(10 * i)]
ScaleInputs == SeqOf(ScaleVals, MaxLen) \cup {Ramp(l) : l \in 0..MaxLen}

NoResult == [status |-> "none", out |-> <<>>]

ScaleIdle ==
    /\ sc_pc = "idle"
    /\ sc_input = <<>>
    /\ sc_new_len = 0
    /\ sc_out = NoResult
    /\ sc_vis_out = NoResult

FftIdle ==
    /\ pc = "start"
    /\ panic_msg = ""
    /\ little_endian = TRUE
    /\ n = 0
    /\ channels = 0
    /\ input = <<>>
    /\ output = <<>>
    /\ buffer = <<>>
    /\ all_floats = <<>>
    /\ channel_data = <<>>
    /\ spectrum = <<>>

\* Visualizer::new: no rows, width 0, height 0
VisNew ==
    /\ rows = <<>>
    /\ width = 0
    /\ height = 0
    /\ v_pc = "idle"
    /\ v_input = <<>>
    /\ v_data = <<>>
    /\ v_writes = <<>>
    /\ v_result = "none"
    /\ v_last = "new"
    /\ v_shrunk = FALSE

VisIdle ==
    /\ VisNew
    /\ max_y = 1
    /\ max_x = 1
    /\ overflow_checks = FALSE

(***************************************************************************)
(* Calls of scale_fft_output on inputs drawn from ScaleInputs.             *)
(***************************************************************************)
ScaleInit ==
    /\ sc_pc = "call"
    /\ sc_input \in ScaleInputs
    /\ sc_new_len \in 0..MaxNewLen
    /\ sc_out = NoResult
    /\ sc_vis_out = NoResult
    /\ FftIdle
    /\ VisIdle

ScaleCall ==
    /\ sc_pc = "call"
    /\ sc_pc' = "done"
    /\ sc_out' = scale_fft_output(sc_input, sc_new_len)
    /\ sc_vis_out' = vis_scale_fft_output(sc_input, sc_new_len)
    /\ UNCHANGED <<sc_input, sc_new_len, fft_vars, vis_vars>>

ScaleNext == ScaleCall

SpecScale == ScaleInit /\ [][ScaleNext]_vars

(***************************************************************************)
(* Properties of scale_fft_output.                                         *)
(***************************************************************************)
RECURSIVE SumRange(_, _, _)
SumRange(s, lo, hi) ==
    IF lo > hi THEN F(0) ELSE FAdd(s[lo], SumRange(s, lo + 1, hi))

\* mean of the i-th (from 0) consecutive block of bs elements
BlockMean(s, i, bs) == FDivCount(SumRange(s, i * bs + 1, (i + 1) * bs), bs)

IsBlockAverage(res, inp, m) ==
    LET bs == Len(inp) \div m
    IN  /\ res.status = "ok"
        /\ Len(res.out) = m
        /\ \A i \in 0..(m - 1) : res.out[i + 1] = BlockMean(inp, i, bs)

\* C1: with 0 < M < len(input) and len(input) a multiple of
\* bandSize = len(input) div M, both copies of scale_fft_output return
\* exactly M elements, the i-th being the mean of the i-th block of bandSize
\* input elements; e.g. [10,20,30,40,50,60] and 3 give [15,35,55].
C1_BlockAverages ==
    (/\ sc_pc = "done"
     /\ sc_new_len > 0
     /\ sc_new_len < Len(sc_input)
     /\ Len(sc_input) % (Len(sc_input) \div sc_new_len) = 0)
    => /\ IsBlockAverage(sc_out, sc_input, sc_new_len)
       /\ IsBlockAverage(sc_vis_out, sc_input, sc_new_len)

\* C2: with M >= len(input) both copies of scale_fft_output return the
\* input itself, whatever its length (0 and 1 included) and whatever M.
C2_PassThrough ==
    (sc_pc = "done" /\ sc_new_len >= Len(sc_input))
    => /\ sc_out = [status |-> "ok", out |-> sc_input]
       /\ sc_vis_out = [status |-> "ok", out |-> sc_input]

C2_Witness ==
    /\ sc_pc = "done"
    /\ sc_new_len = Len(sc_input)
    /\ Len(sc_input) = 2
    /\ sc_out.out = sc_input
    /\ sc_vis_out.out = sc_input

(***************************************************************************)
(* analyze_spectrum.rs: AudioFFT                                           *)
(***************************************************************************)
BYTES_PER_SAMPLE == 2

\* FftwComplex
Complex(r, i) == [re |-> r, im |-> i]

\* sqrt of a value whose numerator and denominator are perfect squares
FSqrt(v) ==
    IF v.k = "fin" /\ v.n >= 0
    THEN Fin(CHOOSE r \in 0..v.n : r * r = v.n, CHOOSE r \in 1..v.d : r * r = v.d)
    ELSE NaN

FSquare(v) == IF v.k = "fin" THEN Fin(v.n * v.n, v.d * v.d) ELSE NaN

\* FftwComplex::abs
abs(x) == FSqrt(FAdd(FSquare(x.re), FSquare(x.im)))

\* log10 of a power of ten; log10(0.0) is -inf
RECURSIVE Log10Pow(_)
Log10Pow(m) == IF m <= 1 THEN 0 ELSE 1 + Log10Pow(m \div 10)

FLog10(v) ==
    IF v.k # "fin" \/ v.n < 0 THEN NaN
    ELSE IF v.n = 0 THEN NegInf
    ELSE F(Log10Pow(v.n) - Log10Pow(v.d))

AudioFFT_new_panics(nn) == ~is_power_of_two(nn)

\* AudioFFT::new(nn, ch)
new(nn, ch) ==
    /\ pc = "start"
    /\ n' = nn
    /\ channels' = ch
    /\ IF AudioFFT_new_panics(nn)
       THEN /\ pc' = "panic"
            /\ panic_msg' = "n should be a power of two!"
            /\ UNCHANGED <<input, output>>
       ELSE /\ pc' = "ready"
            /\ input' = [i \in 1..nn |-> F(0)]
            /\ output' = [i \in 1..(nn \div 2) |-> Complex(F(0), F(0))]
            /\ UNCHANGED panic_msg
    /\ UNCHANGED <<little_endian, buffer, all_floats, channel_data, spectrum>>

get_buf_size(nn, ch) == nn * BYTES_PER_SAMPLE * ch

\* the i16 stored in the byte pair (b0, b1) in memory order
ReadI16(b0, b1, le) ==
    LET u == IF le THEN b0 + 256 * b1 ELSE b1 + 256 * b0
    IN  IF u >= 32768 THEN u - 65536 ELSE u

get_floats(buf, le) ==
    [j \in 1..(Len(buf) \div 2) |-> F(ReadI16(buf[2 * j - 1], buf[2 * j], le))]

\* split_channels: out[i % channels].push(val) for each enumerated val
RECURSIVE split_loop(_, _, _, _)
split_loop(all, i, ch, out) ==
    IF i >= Len(all) THEN out
    ELSE split_loop(all, i + 1, ch,
             [out EXCEPT ![(i % ch) + 1] = Append(@, all[i + 1])])

\* split_channels cutting the samples into consecutive runs, one per channel
split_channels_blocked(all, ch) ==
    [c \in 1..ch |->
        SubSeq(all, (c - 1) * (Len(all) \div ch) + 1, c * (Len(all) \div ch))]

split_channels(all, ch) == split_loop(all, 0, ch, [c \in 1..ch |-> <<>>])

\* 1000 * 0.5 * (1 - cos(2 * PI * i / (len - 1))), rounded to an integer,
\* for the lengths a power-of-two n up to MaxN produces
HannMilli(i, len) ==
    CASE len = 2 -> <<0, 0>>[i + 1]
      [] len = 4 -> <<0, 750, 750, 0>>[i + 1]
      [] len = 8 -> <<0, 188, 611, 950, 950, 611, 188, 0>>[i + 1]

\* do_hanning_window; with len = 1 the divider is 0.0 and 0.0/0.0 is NaN
do_hanning_window(data) ==
    [j \in 1..Len(data) |->
        IF Len(data) = 1 THEN NaN
        ELSE FMulRat(data[j], HannMilli(j - 1, Len(data)), 1000)]

\* load_channel: self.input[i] = val for each enumerated val
load_channel(inp, data) ==
    [i \in 1..Len(inp) |-> IF i <= Len(data) THEN data[i] ELSE inp[i]]

\* Values the transform engine may leave in one output bin.
Bins == {Complex(F(0), F(0)), Complex(F(1), F(0)), Complex(F(6), F(8))}

\* fftw_execute(plan): the engine is external; the transform of silence is
\* zero in every bin, any other input may give any bins.  Only the n/2
\* elements that the output Vec holds are observed by get_output.
fftw_execute(inp, len) ==
    IF \A i \in 1..Len(inp) : inp[i] = F(0)
    THEN {[i \in 1..len |-> Complex(F(0), F(0))]}
    ELSE [1..len -> Bins]

\* 20.0 * x.abs().log10()
Decibel(x) ==
    LET l == FLog10(abs(x))
    IN  IF l.k = "fin" THEN Fin(20 * l.n, l.d) ELSE l

get_output(out) == [i \in 1..Len(out) |-> Decibel(out[i])]

\* execute with the length test made after load_channel
execute_late_check(buf) ==
    /\ pc = "ready"
    /\ buffer' = buf
    /\ all_floats' = get_floats(buf, little_endian)
    /\ IF channels = 0
       THEN /\ pc' = "panic"
            /\ panic_msg' = "index out of bounds"
            /\ UNCHANGED <<input, output, channel_data, spectrum>>
       ELSE /\ channel_data' = split_channels(all_floats', channels)
            /\ input' = load_channel(input, channel_data'[1])
            /\ IF Len(buf) # get_buf_size(n, channels)
               THEN /\ pc' = "panic"
                    /\ panic_msg' = "incorrect buffer length"
                    /\ UNCHANGED <<output, spectrum>>
               ELSE /\ output' \in fftw_execute(input', Len(output))
                    /\ spectrum' = get_output(output')
                    /\ UNCHANGED <<pc, panic_msg>>
    /\ UNCHANGED <<little_endian, n, channels>>

\* AudioFFT::execute(buf)
execute(buf) ==
    /\ pc = "ready"
    /\ buffer' = buf
    /\ IF Len(buf) # get_buf_size(n, channels)
       THEN /\ pc' = "panic"
            /\ panic_msg' = "incorrect buffer length"
            /\ UNCHANGED <<input, output, all_floats, channel_data, spectrum>>
       ELSE /\ all_floats' = get_floats(buf, little_endian)
            /\ IF channels = 0
               THEN \* channel_data[0] on an empty vector
                    /\ pc' = "panic"
                    /\ panic_msg' = "index out of bounds"
                    /\ UNCHANGED <<input, output, channel_data, spectrum>>
               ELSE /\ channel_data' = split_channels(all_floats', channels)
                    /\ input' = load_channel(input,
                                    do_hanning_window(channel_data'[1]))
                    /\ output' \in fftw_execute(input', Len(output))
                    /\ spectrum' = get_output(output')
                    /\ UNCHANGED <<pc, panic_msg>>
    /\ UNCHANGED <<little_endian, n, channels>>

\* Raw buffers handed to execute: byte i is (a * i + b) mod 256.
BufPatterns == {<<0, 0>>, <<1, 0>>, <<37, 200>>, <<0, 255>>}
PatternBuf(len, p) == [i \in 1..len |-> (p[1] * i + p[2]) % 256]
Buffers == {PatternBuf(len, p) : len \in 0..MaxBufLen, p \in BufPatterns}

FftInit ==
    /\ ScaleIdle
    /\ VisIdle
    /\ pc = "start"
    /\ panic_msg = ""
    /\ little_endian \in BOOLEAN
    /\ n = 0
    /\ channels = 0
    /\ input = <<>>
    /\ output = <<>>
    /\ buffer = <<>>
    /\ all_floats = <<>>
    /\ channel_data = <<>>
    /\ spectrum = <<>>

New == 
    /\ \E nn \in 0..MaxN, ch \in 0..MaxChannels : new(nn, ch)
    /\ UNCHANGED <<sc_vars, vis_vars>>

Execute ==
    /\ \E buf \in Buffers : execute(buf)
    /\ UNCHANGED <<sc_vars, vis_vars>>

FftNext == New \/ Execute

SpecFFT == FftInit /\ [][FftNext]_vars

(***************************************************************************)
(* Properties of AudioFFT.                                                 *)
(***************************************************************************)
\* C3: execute with a buffer whose length is not n * 2 * channels panics
\* with the buffer-size message, and the bound input and output buffers
\* keep the values of the previous frame.
C3_WrongLengthLeavesBuffers ==
    [][(pc = "ready" /\ Len(buffer') # n * 2 * channels)
        => /\ pc' = "panic"
           /\ panic_msg' = "incorrect buffer length"
           /\ input' = input
           /\ output' = output]_vars

C3_Witness ==
    /\ pc = "panic"
    /\ panic_msg = "incorrect buffer length"
    /\ Len(buffer) = n * 2 * channels + 2
    /\ spectrum # <<>>
    /\ \E i \in DOMAIN input : input[i] # F(0)
    /\ \E i \in DOMAIN output : output[i] # Complex(F(0), F(0))

PowersOfTwoFrom2 == {2, 4, 8, 16, 32, 64, 128, 256, 512, 1024}

\* C6: is_power_of_two is true of 2, 4, 8, 16, 32, 512, 1024 and false of
\* 1, 7, 500, and AudioFFT::new panics for every n that is not one of the
\* powers of two 2, 4, 8, ... (so for n = 0 and n = 1): an AudioFFT that
\* was constructed has such an n.
C6_PowerOfTwo ==
    (pc = "ready")
    => /\ \A x \in {2, 4, 8, 16, 32, 512, 1024} : is_power_of_two(x)
       /\ \A x \in {1, 7, 500} : ~is_power_of_two(x)
       /\ n \in PowersOfTwoFrom2

\* C7: no value of the returned power spectrum is non-finite; magnitude 1
\* gives 0 dB, magnitude 10 gives 20 dB and magnitude 0 a finite floor.
C7_SpectrumFinite ==
    \A i \in DOMAIN spectrum :
        /\ IsFinite(spectrum[i])
        /\ abs(output[i]) = F(1) => spectrum[i] = F(0)
        /\ abs(output[i]) = F(10) => spectrum[i] = F(20)

\* the frame the end-to-end scenario is about has been executed
C8_Scenario ==
    /\ pc = "ready"
    /\ n = 8
    /\ channels = 2
    /\ Len(buffer) = 32

C8_Deinterleaved(per_channel) ==
    /\ Len(channel_data) = 2
    /\ \A c \in 1..2 : Len(channel_data[c]) = per_channel
    /\ \A i \in 0..(Len(all_floats) - 1) :
          /\ (i \div 2) + 1 \in DOMAIN channel_data[(i % 2) + 1]
          /\ channel_data[(i % 2) + 1][(i \div 2) + 1] = all_floats[i + 1]
    /\ input = do_hanning_window(channel_data[1])
    /\ Len(spectrum) = 4

\* C8 as stated: the 32-byte buffer deinterleaves into two channel
\* sequences of 4 elements each.
C8_FourPerChannel == C8_Scenario => C8_Deinterleaved(4)

\* C8: with n = 8 and 2 channels execute accepts a 32-byte buffer; its 16
\* samples deinterleave (flat sample i to channel i mod 2, order kept) into
\* two channel sequences of 8 elements each, channel 0 is windowed and
\* loaded into the input buffer, and the spectrum has 4 elements.
C8_EndToEnd ==
    C8_Scenario => (Len(all_floats) = 16 /\ C8_Deinterleaved(8))

C8_Witness ==
    /\ C8_Scenario
    /\ Len(spectrum) = 4
    /\ channel_data[1] # channel_data[2]
    /\ \E i \in DOMAIN input : input[i] # F(0)

(***************************************************************************)
(* visualizer.rs: Visualizer                                               *)
(***************************************************************************)
BAR_CHAR == "|"
EMPTY_CHAR == " "
BORDER_CHAR == " "
INIT_CHAR == "#"

\* get_min_max: both accumulators start at 0.0
RECURSIVE get_min_max_loop(_, _, _, _)
get_min_max_loop(s, i, min, max) ==
    IF i > Len(s) THEN <<min, max>>
    ELSE get_min_max_loop(s, i + 1,
             IF FLt(s[i], min) THEN s[i] ELSE min,
             IF FLt(max, s[i]) THEN s[i] ELSE max)

get_min_max(s) == get_min_max_loop(s, 1, F(0), F(0))

\* resize_rowbuf that only ever grows a row
resize_rowbuf_grow_only(row, w) ==
    IF Len(row) < w
    THEN row \o [i \in 1..(w - Len(row)) |-> INIT_CHAR]
    ELSE row

resize_rowbuf(row, w) ==
    IF Len(row) < w
    THEN row \o [i \in 1..(w - Len(row)) |-> INIT_CHAR]
    ELSE SubSeq(row, 1, w)

update_row_count(rs, h) ==
    IF Len(rs) < h
    THEN rs \o [i \in 1..(h - Len(rs)) |-> <<>>]
    ELSE SubSeq(rs, 1, h)

resize_rowbufs(rs, w) == [i \in 1..Len(rs) |-> resize_rowbuf(rs[i], w)]

\* update_size: the fields <<rows, width, height>> after the call
update_size(rs, w, h, my, mx) ==
    IF w # mx - 1 \/ h # my
    THEN <<resize_rowbufs(update_row_count(rs, my), mx - 1), mx - 1, my>>
    ELSE <<rs, w, h>>

\* the closure of render_frame mapping a value to a bar height;
\* the cast to usize truncates the non-negative product
bar_height(x, max_val, h) ==
    IF FLt(x, F(1)) THEN 0
    ELSE (x.n * max_val.d * (h - 1)) \div (x.d * max_val.n)

\* the cell written at column x (from 0) of grid row y
cell_strict(x, y, scaled) ==
    IF x >= Len(scaled) THEN BORDER_CHAR
    ELSE IF scaled[x + 1] > y THEN BAR_CHAR ELSE EMPTY_CHAR

cell(x, y, scaled) ==
    IF x >= Len(scaled) THEN BORDER_CHAR
    ELSE IF scaled[x + 1] >= y THEN BAR_CHAR ELSE EMPTY_CHAR

paint_row(row, y, scaled) == [i \in 1..Len(row) |-> cell(i - 1, y, scaled)]

\* the row loop going on to the next row after a failed addbytes
RECURSIVE write_rows_continue(_, _, _, _, _, _)
write_rows_continue(rs, y, h, scaled, n_ok, writes) ==
    IF y < 0 THEN [rows |-> rs, writes |-> writes, returned |-> FALSE]
    ELSE LET row == paint_row(rs[y + 1], y, scaled)
             ok == Len(writes) < n_ok
             w == [row |-> h - y - 1, bytes |-> row, ok |-> ok]
         IN  write_rows_continue([rs EXCEPT ![y + 1] = row], y - 1, h,
                                 scaled, n_ok, Append(writes, w))

\* the row loop of render_frame from grid row y down to 0; the first n_ok
\* addbytes calls succeed and the next one fails
RECURSIVE write_rows(_, _, _, _, _, _)
write_rows(rs, y, h, scaled, n_ok, writes) ==
    IF y < 0 THEN [rows |-> rs, writes |-> writes, returned |-> FALSE]
    ELSE LET row == paint_row(rs[y + 1], y, scaled)
             ok == Len(writes) < n_ok
             w == [row |-> h - y - 1, bytes |-> row, ok |-> ok]
         IN  IF ok
             THEN write_rows([rs EXCEPT ![y + 1] = row], y - 1, h, scaled,
                             n_ok, Append(writes, w))
             ELSE [rows |-> [rs EXCEPT ![y + 1] = row],
                   writes |-> Append(writes, w), returned |-> TRUE]

RECURSIVE Digits(_)
Digits(i) == IF i < 10 THEN 1 ELSE 1 + Digits(i \div 10)

\* length of format!(" width: {}, height: {}, bars: {} ", ...)
debuginfo_len(w, h, bars) == 27 + Digits(w) + Digits(h) + Digits(bars)

\* Visualizer::render_frame(data); n_ok addbytes calls succeed before one
\* fails, refresh_ok is the outcome of win.refresh()
render_frame(data, n_ok, refresh_ok) ==
    LET sized == update_size(rows, width, height, max_y, max_x)
        w == sized[2]
        h == sized[3]
        res == vis_scale_fft_output(data, w)
    IN  /\ v_pc = "idle"
        /\ width' = w
        /\ height' = h
        /\ v_input' = data
        /\ v_last' = "render_frame"
        /\ v_shrunk' = (w < width /\ h < height)
        /\ IF res.status # "ok"
           THEN /\ rows' = sized[1]
                /\ v_data' = <<>>
                /\ v_writes' = <<>>
                /\ v_result' = res.status
                /\ v_pc' = "panic"
           ELSE LET max_val == get_min_max(res.out)[2]
                    scaled == [i \in 1..Len(res.out) |->
                                  bar_height(res.out[i], max_val, h)]
                    loop == write_rows(sized[1], h - 1, h, scaled, n_ok, <<>>)
                    overflow == w < debuginfo_len(w, h, Len(scaled))
                IN  /\ rows' = loop.rows
                    /\ v_data' = res.out
                    /\ v_writes' = loop.writes
                    /\ v_result' =
                          IF loop.returned THEN "Ok"
                          ELSE IF overflow /\ overflow_checks
                          THEN "panic_overflow"
                          ELSE IF refresh_ok THEN "Ok" ELSE "Err"
                    /\ v_pc' = IF v_result' = "panic_overflow"
                               THEN "panic" ELSE "idle"
        /\ UNCHANGED <<max_y, max_x, overflow_checks>>

\* Spectra handed to render_frame: the first l values of a repeating
\* pattern.
RenderPatterns == {<<NegInf>>, <<F(3), F(2), F(0)>>, <<F(-4), F(5), F(1)>>}
PatternData(p, l) == [i \in 1..l |-> p[((i - 1) % Len(p)) + 1]]
RenderData == {PatternData(p, l) : p \in RenderPatterns, l \in 0..MaxData}

VisInit ==
    /\ ScaleIdle
    /\ FftIdle
    /\ VisNew
    /\ max_y \in 1..MaxY
    /\ max_x \in 1..MaxX
    /\ overflow_checks \in BOOLEAN

\* the terminal is resized to y rows and x columns
Resize ==
    /\ v_pc = "idle"
    /\ \E y \in 1..MaxY, x \in 1..MaxX :
          /\ <<y, x>> # <<max_y, max_x>>
          /\ max_y' = y
          /\ max_x' = x
    /\ v_last' = "resize"
    /\ UNCHANGED <<overflow_checks, rows, width, height, v_pc, v_input,
                   v_data, v_writes, v_result, v_shrunk>>
    /\ UNCHANGED <<sc_vars, fft_vars>>

RenderFrame ==
    /\ \E data \in RenderData, n_ok \in 0..max_y, refresh_ok \in BOOLEAN :
          \* refresh is only called when every row was written
          /\ (n_ok < max_y => refresh_ok)
          /\ render_frame(data, n_ok, refresh_ok)
    /\ UNCHANGED <<sc_vars, fft_vars>>

VisNext == Resize \/ RenderFrame

SpecVis == VisInit /\ [][VisNext]_vars

C5_FailedWriteEndsFrame ==
    (v_last = "render_frame")
    => /\ Len(v_writes) <= height
       /\ \A k \in 1..Len(v_writes) :
             /\ v_writes[k].row = k - 1
             /\ v_writes[k].bytes = rows[height - (k - 1)]
             /\ (k < Len(v_writes) => v_writes[k].ok)
       /\ (\E k \in 1..Len(v_writes) : ~v_writes[k].ok) => v_result = "Ok"
       /\ (v_pc = "idle" /\ \A k \in 1..Len(v_writes) : v_writes[k].ok)
             => Len(v_writes) = height

C5_Witness ==
    /\ v_last = "render_frame"
    /\ height = 2
    /\ Len(v_writes) = 1
    /\ ~v_writes[1].ok
    /\ v_result = "Ok"

\* the largest of 0.0 and the elements of s
MaxWithZero(s) ==
    LET vals == {s[i] : i \in 1..Len(s)} \cup {F(0)}
    IN  CHOOSE m \in vals : \A v \in vals : ~FLt(m, v)

\* b is floor((x / max_val) * (h - 1)) for finite x >= 1
IsFloorOfScaled(b, x, max_val, h) ==
    /\ b * (x.d * max_val.n) <= x.n * max_val.d * (h - 1)
    /\ (b + 1) * (x.d * max_val.n) > x.n * max_val.d * (h - 1)

C9_BarHeightOk(b, x, s, h) ==
    /\ b \in 0..(h - 1)
    /\ IF FLt(x, F(1)) THEN b = 0
       ELSE IsFloorOfScaled(b, x, MaxWithZero(s), h)

C10_ScaleReturns ==
    (v_last = "render_frame" /\ width < Len(v_input))
    => /\ v_result \notin {"panic_div_by_zero", "panic_assert"}
       /\ Len(v_data) <= width

====
